---- MODULE Spec2Model ----
(***************************************************************************)
(* Model of the itinerary planning engine of TourRecomendationChatAgent:   *)
(* src/agent/planner.py (find_best_plan, optimize_activity_order,          *)
(* generate_fallback_tour) as called from src/agent/advanced_agent.py.     *)
(*                                                                         *)
(* Conventions.                                                            *)
(*  - Python lists are sequences, 1-based; a Python index i is i + 1 here. *)
(*  - A float amount of money (target_budget) is held in cents, an integer *)
(*    price or cost in whole units: price <= budget is price*100 <= cents  *)
(*    and price <= budget * 1.2 is price*1000 <= cents*12.  For integer    *)
(*    prices and budgets of at most two decimals up to 4000.00 the float   *)
(*    comparisons of the code give exactly these answers.                  *)
(*  - A dynamically typed goal value is a tagged record [t, v].            *)
(*  - A Python local that is read several times is a parameter of a       *)
(*    helper operator, so that it is evaluated once.                       *)
(***************************************************************************)
EXTENDS Integers, Sequences, FiniteSets, TLC

VARIABLES
    packages,     \* the catalog find_best_plan is handed (self.packages)
    goals,        \* the goals dict of the request being served
    result,       \* what the last call of find_best_plan returned or raised
    first,        \* what the first call for these goals returned
    calls,        \* number of calls of find_best_plan so far
    locals,       \* find_best_plan's locals at the end of the last call
    synth_args,   \* arguments of a direct generate_fallback_tour call
    synth_out,    \* the package that call returned
    synth_locals, \* generate_fallback_tour's locals at the end of that call
    opt_args,     \* arguments of a direct optimize_activity_order call
    opt_out,      \* the list that call returned
    pc,           \* where each of the parallel calls of find_best_plan is
    held,         \* the locals of each of the parallel calls
    run,          \* the locals of a call that is followed loop by loop
    alternatives, \* what _find_alternatives returned to the last plan_tour
    packages_cache, \* AdvancedTourAgent._packages_cache
    cache_time,   \* AdvancedTourAgent._cache_time
    now,          \* the clock time.time() reads, in seconds
    store,        \* the documents of the collection db_col
    agents        \* the agents constructed so far, in order

vars == << packages, goals, result, first, calls, locals,
           synth_args, synth_out, synth_locals, opt_args, opt_out,
           pc, held, run,
           alternatives, packages_cache, cache_time, now, store, agents >>

Min(a, b) == IF a <= b THEN a ELSE b

Max(a, b) == IF a >= b THEN a ELSE b

\* Python s[:n]
Take(s, n) ==
    LET k == IF n >= 0 THEN Min(n, Len(s)) ELSE Max(0, Len(s) + n)
    IN  SubSeq(s, 1, k)

\* Python s * k
RECURSIVE Repeat(_, _)
Repeat(s, k) == IF k <= 0 THEN <<>> ELSE s \o Repeat(s, k - 1)

\* the elements of a sequence
Range(s) == { s[i] : i \in 1..Len(s) }

\* Python int(x) of a non-negative float held in cents
IntOfCents(c) == c \div 100

(***************************************************************************)
(* Static data of the synthesizer (planner.py:4-64).  Coordinates are in   *)
(* thousandths of a degree.                                                *)
(***************************************************************************)
BACKUP_CITIES ==
    << "Colombo", "Sigiriya", "Kandy", "Ella", "Yala",
       "Mirissa", "Galle", "Nuwara Eliya", "Anuradhapura", "Trincomalee" >>

CITY_COORDS ==
    ("Colombo" :> [lat |-> 6927, lon |-> 79861]) @@
    ("Kandy" :> [lat |-> 7290, lon |-> 80633]) @@
    ("Sigiriya" :> [lat |-> 7957, lon |-> 80760]) @@
    ("Ella" :> [lat |-> 6866, lon |-> 81046]) @@
    ("Mirissa" :> [lat |-> 5948, lon |-> 80471]) @@
    ("Galle" :> [lat |-> 6053, lon |-> 80221]) @@
    ("Yala" :> [lat |-> 6383, lon |-> 81500]) @@
    ("Nuwara Eliya" :> [lat |-> 6949, lon |-> 80789]) @@
    ("Anuradhapura" :> [lat |-> 8335, lon |-> 80403]) @@
    ("Trincomalee" :> [lat |-> 8588, lon |-> 81218])

BACKUP_ACTS ==
    ("Colombo" :> <<
        <<"Morning", "Gangaramaya Temple", 10>>, <<"Afternoon", "National Museum", 15>>, <<"Evening", "Galle Face Walk", 0>>,
        <<"Morning", "Viharamahadevi Park", 0>>, <<"Afternoon", "Independence Square", 5>>, <<"Evening", "Pettah Market Tour", 10>>,
        <<"Morning", "Colombo City Tour", 20>>, <<"Afternoon", "Shopping at Odel", 0>>, <<"Evening", "Dutch Hospital Dining", 30>> >>) @@
    ("Sigiriya" :> <<
        <<"Morning", "Sigiriya Rock Fortress", 30>>, <<"Afternoon", "Pidurangala Rock", 25>>, <<"Evening", "Village Tour", 20>>,
        <<"Morning", "Dambulla Cave Temple", 20>>, <<"Afternoon", "Minneriya Safari", 50>>, <<"Evening", "Ayurvedic Massage", 40>>,
        <<"Morning", "Ancient Ruins Walk", 15>>, <<"Afternoon", "Spice Garden Visit", 10>>, <<"Evening", "Traditional Cooking Class", 35>> >>) @@
    ("Kandy" :> <<
        <<"Morning", "Temple of Tooth", 15>>, <<"Afternoon", "Botanical Gardens", 15>>, <<"Evening", "Kandy Lake Walk", 0>>,
        <<"Morning", "Tea Factory Tour", 25>>, <<"Afternoon", "Elephant Sanctuary", 30>>, <<"Evening", "Cultural Dance Show", 20>>,
        <<"Morning", "Bahiravokanda Temple", 10>>, <<"Afternoon", "Royal Palace Museum", 10>>, <<"Evening", "Shopping at Kandy City", 0>> >>) @@
    ("Ella" :> <<
        <<"Morning", "Ella Rock Hike", 0>>, <<"Afternoon", "Nine Arch Bridge", 0>>, <<"Evening", "Little Adam's Peak", 0>>,
        <<"Morning", "Ravana Falls", 5>>, <<"Afternoon", "Demodara Loop", 0>>, <<"Evening", "Ella Town Cafe Hopping", 25>>,
        <<"Morning", "Tea Plantation Walk", 10>>, <<"Afternoon", "Flying Ravana Zipline", 45>>, <<"Evening", "Sunset Viewpoint", 0>> >>) @@
    ("Yala" :> <<
        <<"Morning", "Yala Safari - Leopards", 60>>, <<"Afternoon", "Bird Watching Tour", 40>>, <<"Evening", "Beach Camping", 80>>,
        <<"Morning", "Bundala National Park", 50>>, <<"Afternoon", "Elephant Gathering", 45>>, <<"Evening", "Star Gazing", 20>>,
        <<"Morning", "Nature Trail Walk", 15>>, <<"Afternoon", "Photography Safari", 55>>, <<"Evening", "BBQ by the Lake", 40>> >>) @@
    ("Mirissa" :> <<
        <<"Morning", "Whale Watching", 70>>, <<"Afternoon", "Secret Beach", 0>>, <<"Evening", "Beach Sunset", 0>>,
        <<"Morning", "Snorkeling Trip", 40>>, <<"Afternoon", "Coconut Tree Hill", 5>>, <<"Evening", "Seafood Dinner", 30>>,
        <<"Morning", "Surfing Lessons", 35>>, <<"Afternoon", "Beach Volleyball", 0>>, <<"Evening", "Night Beach Walk", 0>> >>) @@
    ("Galle" :> <<
        <<"Morning", "Galle Fort Tour", 10>>, <<"Afternoon", "Unawatuna Beach", 0>>, <<"Evening", "Lighthouse Sunset", 0>>,
        <<"Morning", "Dutch Museum", 8>>, <<"Afternoon", "Jungle Beach Trek", 15>>, <<"Evening", "Fort Ramparts Walk", 0>>,
        <<"Morning", "Hikkaduwa Turtle Hatchery", 20>>, <<"Afternoon", "Coral Reef Snorkeling", 45>>, <<"Evening", "Shopping in Fort", 0>> >>) @@
    ("Nuwara Eliya" :> <<
        <<"Morning", "Gregory Lake Boat Ride", 15>>, <<"Afternoon", "Victoria Park", 5>>, <<"Evening", "Strawberry Farm", 10>>,
        <<"Morning", "Horton Plains Trek", 35>>, <<"Afternoon", "Pedro Tea Estate", 20>>, <<"Evening", "Town Walk", 0>>,
        <<"Morning", "World's End Viewpoint", 25>>, <<"Afternoon", "Ramboda Falls", 5>>, <<"Evening", "Colonial Bungalow Tour", 15>> >>) @@
    ("Anuradhapura" :> <<
        <<"Morning", "Sacred Bo Tree", 0>>, <<"Afternoon", "Ruwanwelisaya Stupa", 0>>, <<"Evening", "Ancient Ruins Cycling", 15>>,
        <<"Morning", "Twin Ponds", 0>>, <<"Afternoon", "Abhayagiri Monastery", 5>>, <<"Evening", "Moonstone Museum", 10>>,
        <<"Morning", "Isurumuniya Temple", 8>>, <<"Afternoon", "Archaeological Museum", 10>>, <<"Evening", "Sunset at Reservoir", 0>> >>) @@
    ("Trincomalee" :> <<
        <<"Morning", "Nilaveli Beach", 0>>, <<"Afternoon", "Pigeon Island Snorkeling", 45>>, <<"Evening", "Beach Sunset", 0>>,
        <<"Morning", "Koneswaram Temple", 5>>, <<"Afternoon", "Fort Frederick", 5>>, <<"Evening", "Marble Beach", 0>>,
        <<"Morning", "Whale Watching", 60>>, <<"Afternoon", "Hot Springs Visit", 10>>, <<"Evening", "Seafood BBQ", 35>> >>)

(***************************************************************************)
(* generate_fallback_tour (planner.py:66-246)                              *)
(***************************************************************************)
MAX_DAYS_PER_CITY == 2

\* BACKUP_ACTS.get(city, [])
ActsOfCity(city) ==
    IF city \in DOMAIN BACKUP_ACTS THEN BACKUP_ACTS[city] ELSE <<>>

\* CITY_COORDS.get(city, {"lat": 0, "lon": 0})
CoordsOfCity(city) ==
    IF city \in DOMAIN CITY_COORDS THEN CITY_COORDS[city] ELSE [lat |-> 0, lon |-> 0]

\* NumCities with floor division
NumCitiesFloor(target_days) == target_days \div MAX_DAYS_PER_CITY

\* line 83: ceiling division
NumCities(target_days) ==
    (target_days + MAX_DAYS_PER_CITY - 1) \div MAX_DAYS_PER_CITY

\* lines 86-91: the first n entries of the static list, cycled when the
\* list (of length L) is too short
SelectedFrom(n, L) ==
    IF n > L
    THEN Take(Repeat(BACKUP_CITIES, (n \div L) + 1), n)
    ELSE Take(BACKUP_CITIES, n)

SelectedCities(target_days) ==
    SelectedFrom(NumCities(target_days), Len(BACKUP_CITIES))

\* DaysInCity without the cap of MAX_DAYS_PER_CITY
DaysInCityUncapped(i, n, remaining_days) == remaining_days

\* lines 101-106: both branches take the same minimum
DaysInCity(i, n, remaining_days) ==
    IF i = n
    THEN Min(remaining_days, MAX_DAYS_PER_CITY)
    ELSE Min(MAX_DAYS_PER_CITY, remaining_days)

\* lines 94-109: the loop over enumerate(selected_cities)
RECURSIVE AllocLoop(_, _, _, _)
AllocLoop(cities, i, remaining_days, alloc) ==
    IF i > Len(cities) \/ remaining_days <= 0
    THEN alloc
    ELSE AllocLoop(cities, i + 1,
                   remaining_days - DaysInCity(i, Len(cities), remaining_days),
                   Append(alloc, [city |-> cities[i],
                                  days |-> DaysInCity(i, Len(cities), remaining_days)]))

CityDayAllocation(target_days) ==
    AllocLoop(SelectedCities(target_days), 1, target_days, <<>>)

\* ActivityKey without the day
ActivityKeyNoDay(city, name, day) == << city, name, 0 >>

\* f"{city}_{name}_{current_day}": no city or name of the pools holds "_",
\* so the key is the triple
ActivityKey(city, name, day) == << city, name, day >>

\* lines 137-142: the uniqueness retry loop; idx is the Python index, the
\* value is the index the loop ends on
RECURSIVE RetryLoop(_, _, _, _, _, _)
RetryLoop(city, city_acts, idx, day, used, retry_count) ==
    IF /\ ActivityKey(city, city_acts[idx + 1][2], day) \in used
       /\ retry_count < Len(city_acts)
    THEN RetryLoop(city, city_acts, (idx + 1) % Len(city_acts), day, used,
                   retry_count + 1)
    ELSE idx

\* lines 144-156: record the key, append the activity a = city_acts[idx]
EmitActivity(st, city, coords, a, idx) ==
    [st EXCEPT
        !.used_activities = @ \cup {ActivityKey(city, a[2], st.current_day)},
        !.activities = Append(@, [day |-> st.current_day, time |-> a[1],
                                  name |-> a[2], city |-> city, cost |-> a[3],
                                  lat |-> coords.lat, lon |-> coords.lon]),
        !.total_cost = @ + a[3],
        !.city_activity_index = idx + 1,
        !.duplicates = @ + (IF ActivityKey(city, a[2], st.current_day)
                                  \in st.used_activities THEN 1 ELSE 0)]

\* line 131 (140): time, name, cost = city_acts[city_activity_index]
EmitAt(st, city, city_acts, coords, idx) ==
    EmitActivity(st, city, coords, city_acts[idx + 1], idx)

\* lines 127-142: wrap the index, then search an unused activity
EmitFrom(st, city, city_acts, coords) ==
    EmitAt(st, city, city_acts, coords,
           RetryLoop(city, city_acts,
                     IF st.city_activity_index >= Len(city_acts)
                     THEN 0 ELSE st.city_activity_index,
                     st.current_day, st.used_activities, 0))

\* lines 127-156 (and their copy, lines 189-215): one time slot
EmitSlot(st, city) == EmitFrom(st, city, ActsOfCity(city), CoordsOfCity(city))

\* ThreeSlots with range(2) for range(3)
TwoSlots(st, city) == EmitSlot(EmitSlot(st, city), city)

\* line 126 (188): for time_slot in range(3)
ThreeSlots(st, city) == EmitSlot(EmitSlot(EmitSlot(st, city), city), city)

\* line 158 (217): current_day += 1
NextDay(st) == [st EXCEPT !.current_day = @ + 1]

\* lines 123-162 (and 187-219): the days of one city, `left` days to go;
\* DayEnd is the safety check that ends the loop
RECURSIVE DayLoop(_, _, _, _)
RECURSIVE DayEnd(_, _, _, _)
DayLoop(st, city, left, target_days) ==
    IF left <= 0
    THEN st
    ELSE DayEnd(NextDay(ThreeSlots(st, city)), city, left, target_days)

DayEnd(st, city, left, target_days) ==
    IF st.current_day > target_days
    THEN st
    ELSE DayLoop(st, city, left - 1, target_days)

\* EnterCity with city_activity_index = 1
EnterCityFromOne(st, city) ==
    [st EXCEPT !.route = Append(@, city), !.city_activity_index = 1]

\* lines 115-120: route.append(city); city_activity_index = 0
EnterCity(st, city) ==
    [st EXCEPT !.route = Append(@, city), !.city_activity_index = 0]

\* lines 114-165: the primary phase over city_day_allocation; CityEnd is
\* the check that ends it
RECURSIVE CityLoop(_, _, _, _)
RECURSIVE CityEnd(_, _, _, _)
CityLoop(st, alloc, i, target_days) ==
    IF i > Len(alloc)
    THEN st
    ELSE CityEnd(DayLoop(EnterCity(st, alloc[i].city), alloc[i].city,
                         alloc[i].days, target_days),
                 alloc, i, target_days)

CityEnd(st, alloc, i, target_days) ==
    IF st.current_day > target_days
    THEN st
    ELSE CityLoop(st, alloc, i + 1, target_days)

\* lines 177-219: the extension phase over available_cities
RECURSIVE ExtensionLoop(_, _, _, _)
ExtensionLoop(st, available, i, target_days) ==
    IF i > Len(available) \/ st.current_day > target_days
    THEN st
    ELSE ExtensionLoop(
             DayLoop([EnterCity(st, available[i]) EXCEPT !.extended = @ + 1],
                     available[i],
                     Min(MAX_DAYS_PER_CITY, target_days - st.current_day + 1),
                     target_days),
             available, i + 1, target_days)

\* lines 170-175
UnusedCities(alloc) ==
    SelectSeq(BACKUP_CITIES,
              LAMBDA c : c \notin { alloc[i].city : i \in 1..Len(alloc) })

AvailableCities(alloc) ==
    IF UnusedCities(alloc) = <<>> THEN Take(BACKUP_CITIES, 3) ELSE UnusedCities(alloc)

\* lines 74-77, 112: the locals before the loops; duplicates counts the
\* activities accepted although their key was used, extended the cities the
\* extension phase entered
SynthStart ==
    [route |-> <<>>, activities |-> <<>>, total_cost |-> 0,
     used_activities |-> {}, current_day |-> 1, city_activity_index |-> 0,
     duplicates |-> 0, extended |-> 0]

\* line 168: the extension phase runs when days are still missing
Extend(st, alloc, target_days) ==
    IF st.current_day <= target_days
    THEN ExtensionLoop(st, AvailableCities(alloc), 1, target_days)
    ELSE st

\* lines 111-219: both phases
SynthFrom(alloc, target_days) ==
    Extend(CityLoop(SynthStart, alloc, 1, target_days), alloc, target_days)

SynthLoops(target_days) == SynthFrom(CityDayAllocation(target_days), target_days)

\* lines 222-226: budget reconciliation; target_budget in cents
ReconcilePrice(total_cost, target_budget) ==
    IF total_cost * 100 < target_budget
    THEN IntOfCents(target_budget)
    ELSE total_cost

\* FirstIndexes without the seen_cities test
AllIndexes(activities) == [i \in 1..Len(activities) |-> i]

\* lines 229-235: cities in order of first appearance; the loop keeps the
\* city of activity i when no earlier activity has it
FirstIndexes(activities) ==
    SelectSeq([i \in 1..Len(activities) |-> i],
              LAMBDA i : \A j \in 1..(i - 1) :
                             activities[j].city # activities[i].city)

CitiesAt(activities, idx) == [k \in 1..Len(idx) |-> activities[idx[k]].city]

FirstAppearance(activities) == CitiesAt(activities, FirstIndexes(activities))

\* the f-strings of lines 239 and 245, by their parts
SynthName(target_days) == << target_days, "-Day Optimized Tour" >>

SynthExplanation(target_days, destinations) ==
    [text |-> "Custom itinerary", days |-> target_days,
     through |-> Take(destinations, 3), more |-> Len(destinations) > 3]

\* SynthPackage with the interests in the name
SynthPackageNamed(target_days, price, destinations, activities, interests) ==
    [id |-> "generated_999",
     name |-> << target_days, interests.v >>,
     days |-> target_days,
     price |-> price,
     destinations |-> destinations,
     activities |-> activities,
     interests |-> interests,
     explanation |-> SynthExplanation(target_days, destinations)]

\* lines 237-246
SynthPackage(target_days, price, destinations, activities, interests) ==
    [id |-> "generated_999",
     name |-> SynthName(target_days),
     days |-> target_days,
     price |-> price,
     destinations |-> destinations,
     activities |-> activities,
     interests |-> interests,
     explanation |-> SynthExplanation(target_days, destinations)]

\* lines 221-246, from the locals st the loops end with
SynthResult(target_days, target_budget, interests, st) ==
    SynthPackage(target_days, ReconcilePrice(st.total_cost, target_budget),
                 FirstAppearance(st.activities), st.activities, interests)

generate_fallback_tour(target_days, target_budget, interests) ==
    SynthResult(target_days, target_budget, interests, SynthLoops(target_days))

(***************************************************************************)
(* optimize_activity_order (planner.py:316-395)                            *)
(***************************************************************************)
\* CityActivities without the test on the city
CityActivitiesAll(activities, city) == activities

\* lines 322-327: city_activities[city]
CityActivities(activities, city) ==
    SelectSeq(activities, LAMBDA a : a.city = city)

\* lines 330-336: cities by first appearance
CityOrder(activities) == FirstAppearance(activities)

\* lines 346-348: the activities of one time of day
Bucket(city_acts, slot) == SelectSeq(city_acts, LAMBDA a : a.time = slot)

\* act = morning[day_offset] for line 358: the caller's own object
NoCopy(a) == a

\* lines 358, 364, 370, 387: a.copy() is a new dict with the items of a.  An
\* activity of the caller's list carries in obj its position in that list,
\* which is its identity; the copy is none of the caller's objects and
\* has no obj.
Copy(a) == [f \in DOMAIN a \ { "obj" } |-> a[f]]

\* lines 358-371: act = bucket[day_offset].copy(); act['day'] = current_day
CopyAt(bucket, day_offset, day) ==
    IF day_offset < Len(bucket)
    THEN << [Copy(bucket[day_offset + 1]) EXCEPT !.day = day] >>
    ELSE <<>>

\* lines 353-373: the days of one city
RECURSIVE OffsetLoop(_, _, _, _, _, _, _)
OffsetLoop(st, morning, afternoon, evening, day_offset, days_in_city, target_days) ==
    IF day_offset >= days_in_city \/ st.current_day > target_days
    THEN st
    ELSE OffsetLoop(
             [optimized |-> st.optimized
                            \o CopyAt(morning, day_offset, st.current_day)
                            \o CopyAt(afternoon, day_offset, st.current_day)
                            \o CopyAt(evening, day_offset, st.current_day),
              current_day |-> st.current_day + 1],
             morning, afternoon, evening, day_offset + 1, days_in_city,
             target_days)

\* line 351
DaysNeeded(morning, afternoon, evening) ==
    Max(Len(morning), Max(Len(afternoon), Len(evening)))

\* lines 353-373 for the three buckets of one city
ByOffset(st, morning, afternoon, evening, target_days) ==
    OffsetLoop(st, morning, afternoon, evening, 0,
               DaysNeeded(morning, afternoon, evening), target_days)

\* lines 343-373: one city
OneCity(st, city_acts, target_days) ==
    ByOffset(st, Bucket(city_acts, "Morning"), Bucket(city_acts, "Afternoon"),
             Bucket(city_acts, "Evening"), target_days)

\* lines 342-376: the loop over city_order; OptCityEnd is the check that
\* ends it
RECURSIVE OptCityLoop(_, _, _, _, _)
RECURSIVE OptCityEnd(_, _, _, _, _)
OptCityLoop(st, activities, city_order, i, target_days) ==
    IF i > Len(city_order)
    THEN st
    ELSE OptCityEnd(OneCity(st, CityActivities(activities, city_order[i]),
                            target_days),
                    activities, city_order, i, target_days)

OptCityEnd(st, activities, city_order, i, target_days) ==
    IF st.current_day > target_days
    THEN st
    ELSE OptCityLoop(st, activities, city_order, i + 1, target_days)

\* lines 385-390: one padded day per turn, from last_city_acts[:3]
RECURSIVE PadLoop(_, _, _)
PadLoop(st, first3, target_days) ==
    IF st.current_day > target_days
    THEN st
    ELSE PadLoop(
             [optimized |-> st.optimized
                            \o [j \in 1..Len(first3) |->
                                   [Copy(first3[j]) EXCEPT !.day = st.current_day]],
              current_day |-> st.current_day + 1],
             first3, target_days)

\* line 381: city_order[-1] if city_order else None ("" here: both are false)
LastCity(city_order) ==
    IF city_order # <<>> THEN city_order[Len(city_order)] ELSE ""

\* lines 379-390: pad with the last city's first three activities
Pad(st, activities, last_city, target_days) ==
    IF st.current_day <= target_days /\ last_city # ""
    THEN PadLoop(st, Take(CityActivities(activities, last_city), 3), target_days)
    ELSE st

\* line 393
Trim(optimized, target_days) ==
    SelectSeq(optimized, LAMBDA a : a.day <= target_days)

\* lines 338-395 for the city_order built
OptimizeIn(activities, city_order, target_days) ==
    Trim(Pad(OptCityLoop([optimized |-> <<>>, current_day |-> 1], activities,
                         city_order, 1, target_days),
             activities, LastCity(city_order), target_days).optimized,
         target_days)

optimize_activity_order(activities, target_days) ==
    OptimizeIn(activities, CityOrder(activities), target_days)

\* the entries of optimized that are the caller's object at position i
Aliases(optimized, i) ==
    { j \in 1..Len(optimized) :
        "obj" \in DOMAIN optimized[j] /\ optimized[j].obj = i }

\* lines 359, 365, 371, 388: act['day'] = current_day writes the object act
\* is bound to.  The caller's list after the call: an object of the list
\* that optimized holds has the day written last.
Written(activities, optimized) ==
    [i \in 1..Len(activities) |->
        IF Aliases(optimized, i) = {}
        THEN activities[i]
        ELSE [activities[i] EXCEPT
                 !.day = optimized[CHOOSE j \in Aliases(optimized, i) :
                             \A k \in Aliases(optimized, i) : k <= j].day]]

(***************************************************************************)
(* find_best_plan (planner.py:248-314)                                     *)
(***************************************************************************)
DEFAULT_DAYS == 7

DEFAULT_BUDGET == 1500

PyList(s) == [t |-> "list", v |-> s]

\* a value that is true and not iterable, such as the integer 5
PyInt == [t |-> "int", v |-> <<>>]

PyNone == [t |-> "none", v |-> <<>>]

\* Python truth of a goal value: a non-empty list, or a non-zero number
Truthy(x) == (x.t = "list" /\ x.v # <<>>) \/ x.t = "int"

Has(d, key) == key \in DOMAIN d

\* lines 249-255: one try block around the four conversions, one handler
\* that resets all four.  int() and float() fail on a "bad" value, set()
\* on a value that is not iterable; goals.get('interests') cannot fail.
ParseGoals(gl) ==
    LET days_ok == ~Has(gl, "days") \/ gl.days.t = "num"
        budget_ok == ~Has(gl, "budget") \/ gl.budget.t = "num"
        excluded_ok == ~Has(gl, "excluded_ids") \/ gl.excluded_ids.t = "list"
    IN  IF days_ok /\ budget_ok /\ excluded_ok
        THEN [target_days |-> IF Has(gl, "days") THEN gl.days.v ELSE DEFAULT_DAYS,
              target_budget |-> IF Has(gl, "budget") THEN gl.budget.v
                                ELSE DEFAULT_BUDGET * 100,
              interests |-> IF Has(gl, "interests") THEN gl.interests ELSE PyList(<<>>),
              excluded |-> IF Has(gl, "excluded_ids") THEN Range(gl.excluded_ids.v)
                           ELSE {}]
        ELSE [target_days |-> DEFAULT_DAYS, target_budget |-> DEFAULT_BUDGET * 100,
              interests |-> PyList(<<>>), excluded |-> {}]

Abs(n) == IF n < 0 THEN -n ELSE n

\* DayScore with a day window of 2 for 1
DayScoreLoose(p, target_days) ==
    IF p.days = target_days THEN 1000
    ELSE IF Abs(p.days - target_days) <= 2 THEN 100
    ELSE 0

\* lines 268-273: 0 stands for `continue`
DayScore(p, target_days) ==
    IF p.days = target_days THEN 1000
    ELSE IF Abs(p.days - target_days) <= 1 THEN 100
    ELSE 0

\* BudgetScore with < for <=
BudgetScoreStrict(p, target_budget) ==
    IF p.price * 100 < target_budget THEN 300
    ELSE IF p.price * 1000 < target_budget * 12 THEN 100
    ELSE 0

\* lines 276-279
BudgetScore(p, target_budget) ==
    IF p.price * 100 <= target_budget THEN 300
    ELSE IF p.price * 1000 <= target_budget * 12 THEN 100
    ELSE 0

\* lines 282-285, for interests that can be iterated
InterestScore(p, interests) ==
    IF Truthy(interests)
    THEN Cardinality(Range(interests.v) \cap Range(p.interests.v)) * 50
    ELSE 0

\* Better with >= for >
BetterOrEqual(score, best_score) == score >= best_score

\* line 287
Better(score, best_score) == score > best_score

\* line 262
Excluded(p, excluded) == p.id \in excluded

\* lines 265-285: the score of a package that is not skipped
Score(p, g) ==
    DayScore(p, g.target_days) + BudgetScore(p, g.target_budget)
    + InterestScore(p, g.interests)

\* lines 287-289
Keep(st, i, score) ==
    IF Better(score, st.best_score)
    THEN [st EXCEPT !.best_score = score, !.best_match = i]
    ELSE st

\* lines 258-289: the loop over packages; best_match is the index of the
\* package held, 0 for None; raised is set when set(interests) raises
RECURSIVE MatchLoop(_, _, _, _)
MatchLoop(pkgs, i, g, st) ==
    IF i > Len(pkgs)
    THEN st
    ELSE IF Excluded(pkgs[i], g.excluded)
    THEN MatchLoop(pkgs, i + 1, g, st)
    ELSE IF DayScore(pkgs[i], g.target_days) = 0
    THEN MatchLoop(pkgs, i + 1, g, st)
    ELSE IF Truthy(g.interests) /\ g.interests.t # "list"
    THEN [st EXCEPT !.raised = TRUE]
    ELSE MatchLoop(pkgs, i + 1, g, Keep(st, i, Score(pkgs[i], g)))

MatchStart == [best_match |-> 0, best_score |-> -1, raised |-> FALSE]

\* Accepts with > for >=
AcceptsStrict(pkgs, g, m) ==
    /\ m.best_match # 0
    /\ pkgs[m.best_match].days = g.target_days
    /\ m.best_score > 1000

\* line 292
Accepts(pkgs, g, m) ==
    /\ m.best_match # 0
    /\ pkgs[m.best_match].days = g.target_days
    /\ m.best_score >= 1000

\* the f-string of line 304, by its parts
PerfectExplanation(target_days) ==
    [text |-> "Perfect match", days |-> target_days, through |-> <<>>,
     more |-> FALSE]

NoPackage ==
    [id |-> "", name |-> <<>>, days |-> 0, price |-> 0, destinations |-> <<>>,
     activities |-> <<>>, interests |-> PyNone,
     explanation |-> [text |-> "", days |-> 0, through |-> <<>>, more |-> FALSE]]

\* no call made yet; kind is "raised" for a call that raised, and
\* "accepted" or "generated" for the branch of line 292 that returned
NoResult ==
    [kind |-> "none", package |-> NoPackage, score |-> 0,
     explanation |-> NoPackage.explanation]

Locals(pkgs, g, m) ==
    [target_days |-> g.target_days, target_budget |-> g.target_budget,
     interests |-> g.interests, excluded |-> g.excluded,
     best_match |-> m.best_match, best_score |-> m.best_score,
     before |-> pkgs]

\* line 299: best_match['activities'] = sorted_activities, on the catalog's
\* own package object
StoreActivities(pkgs, i, sorted_activities) ==
    [pkgs EXCEPT ![i].activities = sorted_activities]

\* lines 301-305, with the catalog as line 299 left it
AcceptedResult(after, g, m) ==
    [ret |-> [kind |-> "accepted",
              package |-> after[m.best_match],
              score |-> m.best_score,
              explanation |-> PerfectExplanation(g.target_days)],
     packages |-> after]

\* lines 309-314
GeneratedResult(pkgs, custom_plan) ==
    [ret |-> [kind |-> "generated", package |-> custom_plan, score |-> 999,
              explanation |-> custom_plan.explanation],
     packages |-> pkgs]

\* the exception of line 284 leaves find_best_plan
RaisedResult(pkgs) ==
    [ret |-> [NoResult EXCEPT !.kind = "raised"], packages |-> pkgs]

\* lines 291-314
Decide(pkgs, g, m) ==
    IF m.raised
    THEN RaisedResult(pkgs)
    ELSE IF Accepts(pkgs, g, m)
    THEN AcceptedResult(
             StoreActivities(pkgs, m.best_match,
                 optimize_activity_order(pkgs[m.best_match].activities,
                                         g.target_days)),
             g, m)
    ELSE GeneratedResult(pkgs,
             generate_fallback_tour(g.target_days, g.target_budget, g.interests))

\* lines 257-314 for the goals parsed
WithLocals(r, loc) ==
    [ret |-> r.ret, packages |-> r.packages, locals |-> loc]

PlanFor(pkgs, g, m) == WithLocals(Decide(pkgs, g, m), Locals(pkgs, g, m))

PlanWith(pkgs, g) == PlanFor(pkgs, g, MatchLoop(pkgs, 1, g, MatchStart))

\* the call: what it returns (or that it raised), the catalog after it, and
\* its locals
find_best_plan(pkgs, gl) == PlanWith(pkgs, ParseGoals(gl))

(***************************************************************************)
(* The inputs: catalogs as the store hands them over, goals as callers     *)
(* build them.                                                             *)
(***************************************************************************)
MaxPkgs == 2

MaxCalls == 2

MaxDays == 22

PkgIds == << "pkg_1", "pkg_2", "pkg_3", "pkg_4" >>

PkgDays == { 5, 6, 7 }

\* An itinerary as src/data/generate_data.py:101-146 builds it when the
\* route leaves Sigiriya for cities without activity data: three
\* activities on day 1, none after.
GapItinerary ==
    << [day |-> 1, time |-> "Morning", name |-> "Lion Rock Climb",
        city |-> "Sigiriya", cost |-> 30, lat |-> 7957, lon |-> 80760],
       [day |-> 1, time |-> "Afternoon", name |-> "Minneriya Safari",
        city |-> "Sigiriya", cost |-> 50, lat |-> 7957, lon |-> 80760],
       [day |-> 1, time |-> "Evening", name |-> "Ayurvedic Spa",
        city |-> "Sigiriya", cost |-> 40, lat |-> 7957, lon |-> 80760] >>

KandyNames ==
    << "Botanical Gardens", "Temple of the Tooth", "Udawatta Forest",
       "Ceylon Tea Museum", "Kandy Lake Walk", "Bahirawakanda",
       "Cultural Dance Show", "Viewpoint Dinner" >>

\* An itinerary with one activity on each of its days, all in one city:
\* an afternoon on day 2, mornings on the other days.
UnevenItinerary(d) ==
    [k \in 1..d |->
        [day |-> k, time |-> IF k = 2 THEN "Afternoon" ELSE "Morning",
         name |-> KandyNames[k], city |-> "Kandy", cost |-> 10,
         lat |-> 7290, lon |-> 80633]]

\* the two tours on offer, at each of the lengths of PkgDays
PkgContents ==
    { [price |-> 1200, tags |-> << "culture" >>, shape |-> "gaps"],
      [price |-> 1201, tags |-> << "beach", "hiking" >>, shape |-> "uneven"] }

\* a tour that is stored with no activity at all
EmptyContent == [price |-> 1200, tags |-> << "culture" >>, shape |-> "empty"]

\* the categories of the activities of src/data/generate_data.py:5-77 and
\* the tier of line 151: the tags of a tour that has an activity of every
\* category
AllTags ==
    << "adventure", "beach", "city", "culture", "food", "hiking", "history",
       "nature", "party", "photo", "relax", "shopping", "wildlife", "budget" >>

\* a cheap tour with every tag
RichContent == [price |-> 900, tags |-> AllTags, shape |-> "gaps"]

\* a dear tour with its tier as its only tag
PoorContent == [price |-> 1201, tags |-> << "luxury" >>, shape |-> "gaps"]

PkgAttrs ==
    [days : PkgDays, content : PkgContents]
        \cup { [days |-> DEFAULT_DAYS, content |-> EmptyContent] }

\* the cheap tour with every tag at 7 days, the dear one at 6
TagAttrs ==
    { [days |-> DEFAULT_DAYS, content |-> RichContent],
      [days |-> DEFAULT_DAYS - 1, content |-> PoorContent] }

ItineraryOf(a) ==
    CASE a.content.shape = "gaps" -> GapItinerary
      [] a.content.shape = "uneven" -> UnevenItinerary(a.days)
      [] OTHER -> << >>

\* the record of a package as generate_data.py:153-162 stores it
CatalogPackage(i, a) ==
    [id |-> PkgIds[i],
     name |-> << a.days, "-Day Tour" >>,
     days |-> a.days,
     price |-> a.content.price,
     destinations |-> FirstAppearance(ItineraryOf(a)),
     activities |-> ItineraryOf(a),
     interests |-> PyList(a.content.tags)]

\* the catalogs of two tours of TagAttrs
TagCatalogs ==
    { [i \in 1..Len(f) |-> CatalogPackage(i, f[i])] : f \in [1..2 -> TagAttrs] }

Catalogs ==
    { [i \in 1..Len(f) |-> CatalogPackage(i, f[i])] :
        f \in UNION { [1..n -> PkgAttrs] : n \in 0..MaxPkgs } }
        \cup TagCatalogs

\* a key the dict does not hold
AbsentNum == [t |-> "absent", v |-> 0]

AbsentList == [t |-> "absent", v |-> <<>>]

\* the dict with the keys that are present
MkGoals(d, b, i, e) ==
    LET all == [days |-> d, budget |-> b, interests |-> i, excluded_ids |-> e]
    IN  [k \in { x \in DOMAIN all : all[x].t # "absent" } |-> all[k]]

GoalDays == { AbsentNum, [t |-> "bad", v |-> 0], [t |-> "num", v |-> 6] }

GoalBudgets == { AbsentNum, [t |-> "num", v |-> 100000], [t |-> "num", v |-> 120000] }

GoalInterests == { AbsentList, PyInt, PyList(<< "beach", "hiking", "beach" >>) }

GoalExcluded == { AbsentList, PyList(<< "pkg_1" >>) }

\* the goals of a caller who names every tag
TagGoals ==
    { MkGoals(d, [t |-> "num", v |-> 100000], PyList(AllTags), AbsentList) :
        d \in GoalDays }

GoalSet ==
    { MkGoals(d, b, i, e) :
        d \in GoalDays, b \in GoalBudgets, i \in GoalInterests, e \in GoalExcluded }
        \cup TagGoals

NoLocals ==
    [target_days |-> 0, target_budget |-> 0, interests |-> PyNone,
     excluded |-> {}, best_match |-> 0, best_score |-> -1, before |-> <<>>]

NoArgs == [target_days |-> 0, target_budget |-> 0, interests |-> PyNone]

NoOptArgs == [activities |-> << >>, target_days |-> 0]

\* no call is being followed
NoRun == [pc |-> "none"]

\* plan_tour has not called _find_alternatives
NoAlternatives == [kind |-> "none", entries |-> << >>]

\* _cache_time = None
NoTime == [t |-> "none", v |-> 0]

(***************************************************************************)
(* Spec: a request served by find_best_plan, and served again, on the      *)
(* catalog the agent holds.                                                *)
(***************************************************************************)
Init ==
    /\ packages \in Catalogs
    /\ goals \in GoalSet
    /\ result = NoResult
    /\ first = NoResult
    /\ calls = 0
    /\ locals = NoLocals
    /\ synth_args = NoArgs
    /\ synth_out = NoPackage
    /\ synth_locals = SynthStart
    /\ opt_args = NoOptArgs
    /\ opt_out = << >>
    /\ pc = << >>
    /\ held = << >>
    /\ run = NoRun
    /\ alternatives = NoAlternatives
    /\ packages_cache = PyNone
    /\ cache_time = NoTime
    /\ now = 0
    /\ store = << >>
    /\ agents = << >>

\* advanced_agent.py:134: result = find_best_plan(self.packages, goals, ...)
CallFindBestPlan ==
    /\ calls < MaxCalls
    /\ \E r \in { find_best_plan(packages, goals) } :
           /\ result' = r.ret
           /\ packages' = r.packages
           /\ locals' = r.locals
           /\ first' = IF calls = 0 THEN r.ret ELSE first
    /\ calls' = calls + 1
    /\ UNCHANGED << goals, synth_args, synth_out, synth_locals, opt_args,
                    opt_out, pc, held, run,
                    alternatives, packages_cache, cache_time, now, store, agents >>

Next == CallFindBestPlan

Spec == Init /\ [][Next]_vars

(***************************************************************************)
(* SpecSynth: generate_fallback_tour called on its own.                    *)
(***************************************************************************)
SynthBudgets == { 0, 2550, 33050, 80000, 104300 }

SynthInterests == { PyList(<<>>), PyList(<< "beach" >>), PyNone }

InitSynth ==
    /\ packages = <<>>
    /\ goals = MkGoals(AbsentNum, AbsentNum, AbsentList, AbsentList)
    /\ result = NoResult
    /\ first = NoResult
    /\ calls = 0
    /\ locals = NoLocals
    /\ synth_args \in [target_days : 1..MaxDays, target_budget : SynthBudgets,
                       interests : SynthInterests]
    /\ synth_out = NoPackage
    /\ synth_locals = SynthStart
    /\ opt_args = NoOptArgs
    /\ opt_out = << >>
    /\ pc = << >>
    /\ held = << >>
    /\ run = NoRun
    /\ alternatives = NoAlternatives
    /\ packages_cache = PyNone
    /\ cache_time = NoTime
    /\ now = 0
    /\ store = << >>
    /\ agents = << >>

\* a call generate_fallback_tour(target_days, target_budget, interests);
\* st is the locals the loops end with
CallGenerateFallbackTour ==
    /\ calls < MaxCalls
    /\ \E st \in { SynthLoops(synth_args.target_days) } :
           /\ synth_out' = SynthResult(synth_args.target_days,
                                       synth_args.target_budget,
                                       synth_args.interests, st)
           /\ synth_locals' = st
    /\ calls' = calls + 1
    /\ UNCHANGED << packages, goals, result, first, locals, synth_args,
                    opt_args, opt_out, pc, held, run,
                    alternatives, packages_cache, cache_time, now, store, agents >>

NextSynth == CallGenerateFallbackTour

SpecSynth == InitSynth /\ [][NextSynth]_vars

(***************************************************************************)
(* SpecOpt: optimize_activity_order called on its own.                     *)
(***************************************************************************)
MaxActs == 3

MaxTarget == 3

OptNames == << "act_1", "act_2", "act_3", "act_4", "act_5" >>

OptCities == { "Kandy", "Galle" }

OptTimes == { "Morning", "Afternoon", "Evening" }

OptDays == { 1, 2 }

\* what an activity of the list is, but for its name
OptKinds == [city : OptCities, time : OptTimes, day : OptDays]

\* the activity at Python index i - 1 of the list
OptActivity(i, k) ==
    [day |-> k.day, time |-> k.time, name |-> OptNames[i], city |-> k.city,
     cost |-> 10, lat |-> 0, lon |-> 0, obj |-> i]

OptLists ==
    { [i \in 1..Len(f) |-> OptActivity(i, f[i])] :
        f \in UNION { [1..n -> OptKinds] : n \in 0..MaxActs } }

InitOpt ==
    /\ packages = <<>>
    /\ goals = MkGoals(AbsentNum, AbsentNum, AbsentList, AbsentList)
    /\ result = NoResult
    /\ first = NoResult
    /\ calls = 0
    /\ locals = NoLocals
    /\ synth_args = NoArgs
    /\ synth_out = NoPackage
    /\ synth_locals = SynthStart
    /\ opt_args \in [activities : OptLists, target_days : 1..MaxTarget]
    /\ opt_out = << >>
    /\ pc = << >>
    /\ held = << >>
    /\ run = NoRun
    /\ alternatives = NoAlternatives
    /\ packages_cache = PyNone
    /\ cache_time = NoTime
    /\ now = 0
    /\ store = << >>
    /\ agents = << >>

\* a call optimize_activity_order(activities, target_days): what it
\* returns, and the caller's list as the call leaves it
CallOptimizeActivityOrder ==
    /\ calls < MaxCalls
    /\ \E optimized \in { optimize_activity_order(opt_args.activities,
                                                  opt_args.target_days) } :
           /\ opt_out' = optimized
           /\ opt_args' = [opt_args EXCEPT
                              !.activities = Written(@, optimized)]
    /\ calls' = calls + 1
    /\ UNCHANGED << packages, goals, result, first, locals, synth_args,
                    synth_out, synth_locals, pc, held, run,
                    alternatives, packages_cache, cache_time, now, store, agents >>

NextOpt == CallOptimizeActivityOrder

SpecOpt == InitOpt /\ [][NextOpt]_vars

(***************************************************************************)
(* SpecPar: two requests served at the same time by find_best_plan on the  *)
(* catalog that AdvancedTourAgent._packages_cache shares between agents    *)
(* (advanced_agent.py:35-47).  A call reads and writes the shared catalog  *)
(* at lines 261-292 (read), 294 (read), 299 (write) and 301 (read).        *)
(***************************************************************************)
Procs == { 1, 2 }

ParGoals ==
    { MkGoals([t |-> "num", v |-> 6], AbsentNum, AbsentList, AbsentList),
      MkGoals(AbsentNum, AbsentNum, AbsentList, AbsentList) }

\* the locals of a call that starts on the catalog cat; alone is what the
\* call returns when no other call runs, stale whether line 294 read
\* activities that another call had stored
NewCall(gl, cat) ==
    [goals |-> gl, g |-> ParseGoals(gl), m |-> MatchStart,
     activities |-> << >>, sorted_activities |-> << >>, ret |-> NoResult,
     before |-> cat, alone |-> find_best_plan(cat, gl).ret, stale |-> FALSE]

InitPar ==
    /\ packages \in Catalogs
    /\ goals = MkGoals(AbsentNum, AbsentNum, AbsentList, AbsentList)
    /\ result = NoResult
    /\ first = NoResult
    /\ calls = 0
    /\ locals = NoLocals
    /\ synth_args = NoArgs
    /\ synth_out = NoPackage
    /\ synth_locals = SynthStart
    /\ opt_args = NoOptArgs
    /\ opt_out = << >>
    /\ pc = [p \in Procs |-> "match"]
    /\ held \in [Procs -> { NewCall(gl, packages) : gl \in ParGoals }]
    /\ run = NoRun
    /\ alternatives = NoAlternatives
    /\ packages_cache = PyNone
    /\ cache_time = NoTime
    /\ now = 0
    /\ store = << >>
    /\ agents = << >>

\* what lines 291-314 do after the loop when they do not accept
Rejected(pkgs, g, m) ==
    IF m.raised
    THEN RaisedResult(pkgs).ret
    ELSE GeneratedResult(pkgs,
             generate_fallback_tour(g.target_days, g.target_budget,
                                    g.interests)).ret

\* lines 257-292, and 309-314 when the package is not accepted
MatchDone(p, h, m) ==
    IF ~m.raised /\ Accepts(packages, h.g, m)
    THEN /\ pc' = [pc EXCEPT ![p] = "read"]
         /\ held' = [held EXCEPT ![p].m = m]
    ELSE /\ pc' = [pc EXCEPT ![p] = "done"]
         /\ held' = [held EXCEPT ![p].m = m,
                                 ![p].ret = Rejected(packages, h.g, m)]

ParMatch(p) ==
    /\ pc[p] = "match"
    /\ \E m \in { MatchLoop(packages, 1, held[p].g, MatchStart) } :
           MatchDone(p, held[p], m)
    /\ UNCHANGED << packages, goals, result, first, calls, locals, synth_args,
                    synth_out, synth_locals, opt_args, opt_out, run,
                    alternatives, packages_cache, cache_time, now, store, agents >>

\* lines 294-297: activities = best_match.get('activities', []), then the
\* optimizer on that list
ReadActivities(h, activities) ==
    [h EXCEPT !.activities = activities,
              !.sorted_activities =
                  optimize_activity_order(activities, h.g.target_days),
              !.stale = activities # h.before[h.m.best_match].activities]

ParRead(p) ==
    /\ pc[p] = "read"
    /\ held' = [held EXCEPT ![p] =
                    ReadActivities(held[p],
                                   packages[held[p].m.best_match].activities)]
    /\ pc' = [pc EXCEPT ![p] = "store"]
    /\ UNCHANGED << packages, goals, result, first, calls, locals, synth_args,
                    synth_out, synth_locals, opt_args, opt_out, run,
                    alternatives, packages_cache, cache_time, now, store, agents >>

\* line 299
ParStore(p) ==
    /\ pc[p] = "store"
    /\ packages' = StoreActivities(packages, held[p].m.best_match,
                                   held[p].sorted_activities)
    /\ pc' = [pc EXCEPT ![p] = "return"]
    /\ UNCHANGED << goals, result, first, calls, locals, synth_args, synth_out,
                    synth_locals, opt_args, opt_out, held, run,
                    alternatives, packages_cache, cache_time, now, store, agents >>

\* lines 301-305: the package returned is the catalog's package as it is now
ParReturn(p) ==
    /\ pc[p] = "return"
    /\ held' = [held EXCEPT ![p].ret =
                    AcceptedResult(packages, held[p].g, held[p].m).ret]
    /\ pc' = [pc EXCEPT ![p] = "done"]
    /\ UNCHANGED << packages, goals, result, first, calls, locals, synth_args,
                    synth_out, synth_locals, opt_args, opt_out, run,
                    alternatives, packages_cache, cache_time, now, store, agents >>

NextPar ==
    \E p \in Procs : ParMatch(p) \/ ParRead(p) \/ ParStore(p) \/ ParReturn(p)

SpecPar == InitPar /\ [][NextPar]_vars


(***************************************************************************)
(* SpecSteps: one call of find_best_plan followed loop by loop.  A step is *)
(* one turn of a loop of planner.py; run holds the locals of the call and  *)
(* of the function it is in.  The steps are taken one after the other by   *)
(* the thread that serves the request, hence the weak fairness.            *)
(***************************************************************************)
\* lines 261-289 for the package p at index i: one turn of the matcher loop
MatchOne(p, i, g, st) ==
    IF Excluded(p, g.excluded) \/ DayScore(p, g.target_days) = 0
    THEN st
    ELSE IF Truthy(g.interests) /\ g.interests.t # "list"
    THEN [st EXCEPT !.raised = TRUE]
    ELSE Keep(st, i, Score(p, g))

\* lines 354-373: one turn of the loop over range(days_in_city)
OffsetDay(st, morning, afternoon, evening, day_offset) ==
    [optimized |-> st.optimized
                   \o CopyAt(morning, day_offset, st.current_day)
                   \o CopyAt(afternoon, day_offset, st.current_day)
                   \o CopyAt(evening, day_offset, st.current_day),
     current_day |-> st.current_day + 1]

\* PadDay without its body
PadDaySkipped(st, first3) == st

\* lines 386-390: one turn of the padding loop
PadDay(st, first3) ==
    [optimized |-> st.optimized
                   \o [j \in 1..Len(first3) |->
                          [Copy(first3[j]) EXCEPT !.day = st.current_day]],
     current_day |-> st.current_day + 1]

StepGoals ==
    { MkGoals([t |-> "num", v |-> 6], AbsentNum, AbsentList, AbsentList),
      MkGoals(AbsentNum, AbsentNum, PyList(<< "beach" >>),
              PyList(<< "pkg_1" >>)) }

\* the locals when the call enters the loop of line 261
StartRun(gl) ==
    [pc |-> "match", g |-> ParseGoals(gl), i |-> 1, m |-> MatchStart,
     selected_cities |-> << >>, remaining_days |-> 0, alloc |-> << >>,
     ai |-> 1, st |-> SynthStart, day_in_city |-> 0, time_slot |-> 0,
     idx |-> 0, retry_count |-> 0,
     activities |-> << >>, city_order |-> << >>, ci |-> 1, day_offset |-> 0,
     days_in_city |-> 0, opt |-> [optimized |-> << >>, current_day |-> 1],
     ret |-> NoResult]

InitSteps ==
    /\ packages \in Catalogs
    /\ goals \in StepGoals
    /\ result = NoResult
    /\ first = NoResult
    /\ calls = 0
    /\ locals = NoLocals
    /\ synth_args = NoArgs
    /\ synth_out = NoPackage
    /\ synth_locals = SynthStart
    /\ opt_args = NoOptArgs
    /\ opt_out = << >>
    /\ pc = << >>
    /\ held = << >>
    /\ run = StartRun(goals)
    /\ alternatives = NoAlternatives
    /\ packages_cache = PyNone
    /\ cache_time = NoTime
    /\ now = 0
    /\ store = << >>
    /\ agents = << >>

\* the variables a step inside a function leaves alone
Others ==
    << packages, goals, result, first, calls, locals, synth_args, synth_out,
       synth_locals, opt_args, opt_out, pc, held,
       alternatives, packages_cache, cache_time, now, store, agents >>

Goto(r, label) == [r EXCEPT !.pc = label]

\* find_best_plan, lines 261-289: for p in packages
StepMatch ==
    /\ run.pc = "match"
    /\ run.i <= Len(packages)
    /\ \E m \in { MatchOne(packages[run.i], run.i, run.g, run.m) } :
           run' = IF m.raised
                  THEN [Goto(run, "done") EXCEPT
                           !.m = m, !.ret = RaisedResult(packages).ret]
                  ELSE [Goto(run, "match") EXCEPT !.m = m, !.i = @ + 1]
    /\ UNCHANGED Others

\* line 292 and what follows up to the first loop of the function called:
\* lines 294-340 of optimize_activity_order, lines 74-93 of
\* generate_fallback_tour
StepDecide ==
    /\ run.pc = "match"
    /\ run.i > Len(packages)
    /\ run' =
          IF Accepts(packages, run.g, run.m)
          THEN [Goto(run, "opt_city") EXCEPT
                   !.activities = packages[run.m.best_match].activities,
                   !.city_order =
                       CityOrder(packages[run.m.best_match].activities)]
          ELSE [Goto(run, "alloc") EXCEPT
                   !.selected_cities = SelectedCities(run.g.target_days),
                   !.remaining_days = run.g.target_days]
    /\ UNCHANGED Others

\* generate_fallback_tour, lines 97-109: for i, city in
\* enumerate(selected_cities)
AllocOne(r, days_in_city) ==
    [Goto(r, "alloc") EXCEPT
        !.alloc = Append(@, [city |-> r.selected_cities[r.ai],
                             days |-> days_in_city]),
        !.remaining_days = @ - days_in_city,
        !.ai = @ + 1]

StepAlloc ==
    /\ run.pc = "alloc"
    /\ run' =
          IF run.ai > Len(run.selected_cities) \/ run.remaining_days <= 0
          THEN [Goto(run, IF run.alloc = << >> THEN "finish" ELSE "city")
                   EXCEPT !.ai = 1]
          ELSE AllocOne(run, DaysInCity(run.ai, Len(run.selected_cities),
                                        run.remaining_days))
    /\ UNCHANGED Others

City(r) == r.alloc[r.ai].city

\* lines 114-120: for city, num_days in city_day_allocation
StepCity ==
    /\ run.pc = "city"
    /\ run' = [Goto(run, IF run.alloc[run.ai].days > 0 THEN "slot"
                         ELSE "city_end")
                  EXCEPT !.st = EnterCity(@, City(run)), !.day_in_city = 0,
                         !.time_slot = 0]
    /\ UNCHANGED Others

\* lines 126-136: for time_slot in range(3), up to the while
StepSlot ==
    /\ run.pc = "slot"
    /\ run' = [Goto(run, "while") EXCEPT
                  !.idx = IF run.st.city_activity_index
                               >= Len(ActsOfCity(City(run)))
                          THEN 0 ELSE run.st.city_activity_index,
                  !.retry_count = 0]
    /\ UNCHANGED Others

\* lines 137-156: one turn of the while loop, or the rest of the time slot
\* when its test fails
StepWhile ==
    /\ run.pc = "while"
    /\ run' =
          IF /\ ActivityKey(City(run), ActsOfCity(City(run))[run.idx + 1][2],
                            run.st.current_day) \in run.st.used_activities
             /\ run.retry_count < Len(ActsOfCity(City(run)))
          THEN [Goto(run, "while") EXCEPT
                   !.idx = (@ + 1) % Len(ActsOfCity(City(run))),
                   !.retry_count = @ + 1]
          ELSE [Goto(run, IF run.time_slot + 1 < 3 THEN "slot" ELSE "day_end")
                   EXCEPT
                   !.st = EmitAt(@, City(run), ActsOfCity(City(run)),
                                 CoordsOfCity(City(run)), run.idx),
                   !.time_slot = @ + 1]
    /\ UNCHANGED Others

\* lines 158-162: the end of a turn of for day_in_city in range(num_days)
StepDayEnd ==
    /\ run.pc = "day_end"
    /\ run' =
          [Goto(run, IF /\ run.st.current_day + 1 <= run.g.target_days
                        /\ run.day_in_city + 1 < run.alloc[run.ai].days
                     THEN "slot" ELSE "city_end")
              EXCEPT !.st = NextDay(@), !.day_in_city = @ + 1,
                     !.time_slot = 0]
    /\ UNCHANGED Others

\* lines 164-165: the end of a turn of the loop over city_day_allocation
StepCityEnd ==
    /\ run.pc = "city_end"
    /\ run' =
          [Goto(run, IF /\ run.st.current_day <= run.g.target_days
                        /\ run.ai + 1 <= Len(run.alloc)
                     THEN "city" ELSE "finish")
              EXCEPT !.ai = @ + 1]
    /\ UNCHANGED Others

\* lines 167-246, and lines 309-314 of find_best_plan
StepFinish ==
    /\ run.pc = "finish"
    /\ run' = [Goto(run, "done") EXCEPT
                  !.ret = GeneratedResult(packages,
                              SynthResult(run.g.target_days,
                                  run.g.target_budget, run.g.interests,
                                  Extend(run.st, run.alloc,
                                         run.g.target_days))).ret]
    /\ UNCHANGED Others

CityActs(r) == CityActivities(r.activities, r.city_order[r.ci])

\* optimize_activity_order, lines 342-351: for city in city_order
StepOptCity ==
    /\ run.pc = "opt_city"
    /\ run' =
          IF run.ci > Len(run.city_order)
          THEN Goto(run, "pad")
          ELSE [Goto(run, "opt_day") EXCEPT
                   !.day_offset = 0,
                   !.days_in_city =
                       DaysNeeded(Bucket(CityActs(run), "Morning"),
                                  Bucket(CityActs(run), "Afternoon"),
                                  Bucket(CityActs(run), "Evening"))]
    /\ UNCHANGED Others

\* lines 353-376: one turn of for day_offset in range(days_in_city), or the
\* end of the city's turn
StepOptDay ==
    /\ run.pc = "opt_day"
    /\ run' =
          IF /\ run.day_offset < run.days_in_city
             /\ run.opt.current_day <= run.g.target_days
          THEN [Goto(run, "opt_day") EXCEPT
                   !.opt = OffsetDay(@, Bucket(CityActs(run), "Morning"),
                                     Bucket(CityActs(run), "Afternoon"),
                                     Bucket(CityActs(run), "Evening"),
                                     run.day_offset),
                   !.day_offset = @ + 1]
          ELSE IF run.opt.current_day > run.g.target_days
          THEN Goto(run, "pad")
          ELSE [Goto(run, "opt_city") EXCEPT !.ci = @ + 1]
    /\ UNCHANGED Others

\* lines 379-390: one turn of while current_day <= target_days
StepPad ==
    /\ run.pc = "pad"
    /\ run.opt.current_day <= run.g.target_days
    /\ LastCity(run.city_order) # ""
    /\ run' = [run EXCEPT
                  !.opt = PadDay(@, Take(CityActivities(run.activities,
                                             LastCity(run.city_order)), 3))]
    /\ UNCHANGED Others

\* lines 393-395, and lines 299-305 of find_best_plan
StepReturn ==
    /\ run.pc = "pad"
    /\ ~(run.opt.current_day <= run.g.target_days
         /\ LastCity(run.city_order) # "")
    /\ \E r \in { AcceptedResult(
                     StoreActivities(packages, run.m.best_match,
                         Trim(run.opt.optimized, run.g.target_days)),
                     run.g, run.m) } :
           /\ run' = [Goto(run, "done") EXCEPT !.ret = r.ret]
           /\ packages' = r.packages
    /\ UNCHANGED << goals, result, first, calls, locals, synth_args, synth_out,
                    synth_locals, opt_args, opt_out, pc, held,
                    alternatives, packages_cache, cache_time, now, store, agents >>

NextSteps ==
    \/ StepMatch \/ StepDecide
    \/ StepAlloc \/ StepCity \/ StepSlot \/ StepWhile \/ StepDayEnd
    \/ StepCityEnd \/ StepFinish
    \/ StepOptCity \/ StepOptDay \/ StepPad \/ StepReturn

SpecSteps == InitSteps /\ [][NextSteps]_vars /\ WF_vars(NextSteps)


(***************************************************************************)
(* SpecAlt: plan_tour (advanced_agent.py:106-161) serves a request: it     *)
(* calls find_best_plan and then _find_alternatives on the package chosen. *)
(***************************************************************************)
\* the default of the parameter count
DEFAULT_COUNT == 2

\* lines 287-293: the entry appended for a result
AltEntry(r) ==
    [id |-> r.package.id, name |-> r.package.name, price |-> r.package.price,
     days |-> r.package.days, score |-> r.score]

\* lines 283-284: alt_goals = goals.copy(); alt_goals['excluded_ids'] =
\* list(excluded)
AltGoals(gl, excluded) ==
    [k \in DOMAIN gl \cup { "excluded_ids" } |->
        IF k = "excluded_ids" THEN PyList(excluded) ELSE gl[k]]

\* line 294: excluded.add(id); the set is kept as the list of its elements
AddId(excluded, id) ==
    IF id \in Range(excluded) THEN excluded ELSE Append(excluded, id)

\* lines 282-294: the loop for _ in range(count); r is what find_best_plan
\* returned in this turn.  An exception of find_best_plan leaves
\* _find_alternatives.
RECURSIVE AlternativesLoop(_, _, _, _, _)
RECURSIVE AlternativesTurn(_, _, _, _, _)
AlternativesLoop(pkgs, gl, excluded, alts, left) ==
    IF left = 0
    THEN [kind |-> "returned", entries |-> alts, packages |-> pkgs]
    ELSE AlternativesTurn(find_best_plan(pkgs, AltGoals(gl, excluded)), gl,
                          excluded, alts, left)

AlternativesTurn(r, gl, excluded, alts, left) ==
    IF r.ret.kind = "raised"
    THEN [kind |-> "raised", entries |-> << >>, packages |-> r.packages]
    ELSE AlternativesLoop(r.packages, gl, AddId(excluded, r.ret.package.id),
                          Append(alts, AltEntry(r.ret)), left - 1)

\* lines 277-296: what _find_alternatives returns, and the catalog after it
find_alternatives(pkgs, chosen_pkg, gl, count) ==
    AlternativesLoop(pkgs, gl, << chosen_pkg.id >>, << >>, count)

\* lines 120-127: the goals plan_tour builds have every key; days went
\* through int() and budget through float()
TourGoals ==
    { MkGoals([t |-> "num", v |-> d], [t |-> "num", v |-> b], i, e) :
        d \in { 6, 7 }, b \in { 100000, 120000 },
        i \in { PyList(<< >>), PyInt, PyList(<< "beach", "hiking", "beach" >>) },
        e \in { PyList(<< >>), PyList(<< "pkg_1" >>) } }

InitAlt ==
    /\ packages \in Catalogs
    /\ goals \in TourGoals
    /\ result = NoResult
    /\ first = NoResult
    /\ calls = 0
    /\ locals = NoLocals
    /\ synth_args = NoArgs
    /\ synth_out = NoPackage
    /\ synth_locals = SynthStart
    /\ opt_args = NoOptArgs
    /\ opt_out = << >>
    /\ pc = << >>
    /\ held = << >>
    /\ run = NoRun
    /\ alternatives = NoAlternatives
    /\ packages_cache = PyNone
    /\ cache_time = NoTime
    /\ now = 0
    /\ store = << >>
    /\ agents = << >>

\* lines 134 and 160 of a call plan_tour(data); an exception of
\* find_best_plan at line 134 leaves plan_tour before line 160
CallPlanTour ==
    /\ calls < MaxCalls
    /\ \E r \in { find_best_plan(packages, goals) } :
           /\ result' = r.ret
           /\ locals' = r.locals
           /\ first' = IF calls = 0 THEN r.ret ELSE first
           /\ IF r.ret.kind = "raised"
              THEN /\ alternatives' = NoAlternatives
                   /\ packages' = r.packages
              ELSE \E a \in { find_alternatives(r.packages, r.ret.package,
                                                goals, DEFAULT_COUNT) } :
                       /\ alternatives' = [kind |-> a.kind,
                                           entries |-> a.entries]
                       /\ packages' = a.packages
    /\ calls' = calls + 1
    /\ UNCHANGED << goals, synth_args, synth_out, synth_locals, opt_args,
                    opt_out, pc, held, run, packages_cache, cache_time, now,
                    store, agents >>

NextAlt == CallPlanTour

SpecAlt == InitAlt /\ [][NextAlt]_vars

(***************************************************************************)
(* SpecCache: agents are constructed one after another while time passes   *)
(* and the collection changes (advanced_agent.py:35-48).                   *)
(***************************************************************************)
MaxAgents == 3

MaxTime == 602

\* line 44: the age in seconds above which the cache is loaded again
CACHE_SECONDS == 300

\* line 45: limit(1000)
QUERY_LIMIT == 1000

\* the seconds that pass between two looks at the clock
Waits == { 150, 151 }

\* what the collection may hold
Stores ==
    { << >>,
      << CatalogPackage(1, [days |-> DEFAULT_DAYS, content |-> EmptyContent]) >>,
      << CatalogPackage(1, [days |-> DEFAULT_DAYS, content |-> EmptyContent]),
         CatalogPackage(2, [days |-> DEFAULT_DAYS, content |-> RichContent]) >> }

\* Expired with >= for >
ExpiredAtLimit(cache, time, t) ==
    \/ cache.t = "none"
    \/ time.t = "none"
    \/ t - time.v >= CACHE_SECONDS

\* lines 42-44: the test that sends __init__ to the collection
Expired(cache, time, t) ==
    \/ cache.t = "none"
    \/ time.t = "none"
    \/ t - time.v > CACHE_SECONDS

\* line 45: list(db_col.find({}, {'_id': 0}).limit(1000))
Query(db_col) == Take(db_col, QUERY_LIMIT)

\* lines 42-48 of __init__ when the test of lines 42-44 gives load: the
\* cache and its time after __init__, and the agent constructed; queried
\* tells whether the collection was read, at is the time of construction
Construct(cache, time, db_col, t, load) ==
    [cache |-> IF load THEN PyList(Query(db_col)) ELSE cache,
     time |-> IF load THEN [t |-> "num", v |-> t] ELSE time,
     agent |-> [packages |-> IF load THEN Query(db_col) ELSE cache.v,
                queried |-> load, at |-> t]]

InitCache ==
    /\ packages = << >>
    /\ goals = MkGoals(AbsentNum, AbsentNum, AbsentList, AbsentList)
    /\ result = NoResult
    /\ first = NoResult
    /\ calls = 0
    /\ locals = NoLocals
    /\ synth_args = NoArgs
    /\ synth_out = NoPackage
    /\ synth_locals = SynthStart
    /\ opt_args = NoOptArgs
    /\ opt_out = << >>
    /\ pc = << >>
    /\ held = << >>
    /\ run = NoRun
    /\ alternatives = NoAlternatives
    /\ packages_cache = PyNone
    /\ cache_time = NoTime
    /\ now = 0
    /\ store \in Stores
    /\ agents = << >>

\* AdvancedTourAgent(db_col): lines 40-48 of __init__
NewAgent ==
    /\ Len(agents) < MaxAgents
    /\ \E c \in { Construct(packages_cache, cache_time, store, now,
                            Expired(packages_cache, cache_time, now)) } :
           /\ packages_cache' = c.cache
           /\ cache_time' = c.time
           /\ agents' = Append(agents, c.agent)
           /\ packages' = c.agent.packages
    /\ UNCHANGED << goals, result, first, calls, locals, synth_args, synth_out,
                    synth_locals, opt_args, opt_out, pc, held, run,
                    alternatives, now, store >>

\* time passes
Tick ==
    /\ \E w \in Waits :
           /\ now + w <= MaxTime
           /\ now' = now + w
    /\ UNCHANGED << packages, goals, result, first, calls, locals, synth_args,
                    synth_out, synth_locals, opt_args, opt_out, pc, held, run,
                    alternatives, packages_cache, cache_time, store, agents >>

\* the collection is written by its owner
ChangeStore ==
    /\ \E db \in Stores \ { store } : store' = db
    /\ UNCHANGED << packages, goals, result, first, calls, locals, synth_args,
                    synth_out, synth_locals, opt_args, opt_out, pc, held, run,
                    alternatives, packages_cache, cache_time, now, agents >>

NextCache == NewAgent \/ Tick \/ ChangeStore

SpecCache == InitCache /\ [][NextCache]_vars
(***************************************************************************)
(* Properties of find_best_plan, checked under Spec.                       *)
(***************************************************************************)
Returned == calls > 0 /\ result.kind \in { "accepted", "generated" }

\* the catalog the last call was handed, and the package its loop held
Before == locals.before

Best == Before[locals.best_match]

\* the ids the caller asked to exclude
AskedExcluded ==
    IF Has(goals, "excluded_ids") /\ goals.excluded_ids.t = "list"
    THEN Range(goals.excluded_ids.v)
    ELSE {}

\* a package the matcher may score: not excluded, within one day
Eligible(p) ==
    /\ p.id \notin locals.excluded
    /\ p.days - locals.target_days \in { -1, 0, 1 }

\* the tags of the goals in force that the package shares
SharedTags(p) ==
    IF locals.interests.t = "list"
    THEN { tag \in Range(p.interests.v) : tag \in Range(locals.interests.v) }
    ELSE {}

\* the reference score of an eligible package under the goals in force
RefScore(p) ==
    (IF p.days = locals.target_days THEN 1000 ELSE 100)
    + (CASE p.price * 100 <= locals.target_budget -> 300
         [] p.price * 100 > locals.target_budget
            /\ p.price * 10 <= (locals.target_budget * 12) \div 100 -> 100
         [] OTHER -> 0)
    + 50 * Cardinality(SharedTags(p))

\* the matcher rejects: empty catalog, no eligible package, or a best
\* package that is not an exact-day match
Rejects ==
    \/ Before = <<>>
    \/ \A i \in 1..Len(Before) : ~Eligible(Before[i])
    \/ locals.best_match = 0
    \/ Best.days # locals.target_days

\* the packages of the catalog that are not excluded and have the days
\* asked for
ExactDay ==
    { i \in 1..Len(Before) :
        /\ Before[i].id \notin locals.excluded
        /\ Before[i].days = locals.target_days }

\* the packages that are not excluded and are one day off
NearDay ==
    { i \in 1..Len(Before) :
        /\ Before[i].id \notin locals.excluded
        /\ Abs(Before[i].days - locals.target_days) = 1 }

\* C26: an exact-day match has the highest priority: when the catalog
\* holds a package that is not excluded and has the days asked for, no
\* package one day off has a higher score than every such package, the
\* package the matcher holds is an exact-day package, and find_best_plan
\* returns a package of the catalog.
C26_ExactDayFirst ==
    Returned /\ ExactDay # {} =>
        /\ \A n \in NearDay :
               \E e \in ExactDay : RefScore(Before[n]) <= RefScore(Before[e])
        /\ locals.best_match \in ExactDay
        /\ result.kind = "accepted"

\* C1: for any catalog and any goals record, missing and invalid fields
\* included, find_best_plan returns a result with a package, a score and an
\* explanation; it never raises.
C1_AlwaysReturns ==
    calls > 0 =>
        /\ result.kind # "raised"
        /\ { "package", "score", "explanation" } \subseteq DOMAIN result

\* C2: find_best_plan leaves the catalog unchanged: after a call every
\* package has the activities and the fields it had before the call.
C2_CatalogUnchanged == calls > 0 => packages = Before

\* C3: the second and every later call on the same catalog, with the same
\* goals, returns what the first call returned.
C3_RepeatedCallsAgree == calls >= 2 => result = first

\* C4: a returned result is the synthesizer's package with score 999 and
\* the synthesizer's explanation exactly when the matcher rejects, and a
\* result that holds a catalog package never has score 999.
C4_GeneratedIffRejected ==
    Returned =>
        /\ Rejects <=>
               /\ result.package =
                      generate_fallback_tour(locals.target_days,
                          locals.target_budget, locals.interests)
               /\ result.score = 999
               /\ result.explanation = result.package.explanation
        /\ result.package.id \in { Before[i].id : i \in 1..Len(Before) }
               => result.score # 999

C4_Witness ==
    /\ Returned
    /\ result.score = 999
    /\ locals.best_match # 0
    /\ Best.days # locals.target_days
    /\ \E i \in 1..Len(Before) : Before[i].days = locals.target_days

\* C5: every returned package has as many days as the target in force; the
\* matcher never holds a package two or more days off, and a package one
\* day off is never returned.
C5_DaysMatchTarget ==
    calls > 0 =>
        /\ Returned => result.package.days = locals.target_days
        /\ locals.best_match # 0 => Best.days - locals.target_days \in { -1, 0, 1 }
        /\ \A i \in 1..Len(Before) :
               Returned /\ Before[i].days # locals.target_days
                   => result.package.id # Before[i].id

C5_Witness ==
    /\ Returned
    /\ result.kind = "accepted"
    /\ \E i \in 1..Len(Before) :
           /\ i < locals.best_match
           /\ Before[i].days - locals.target_days \notin { -1, 0, 1 }
           /\ Before[i].id \notin locals.excluded
           /\ Before[i].price < Best.price

\* C6: an accepted result carries the reference score of its package
\* (1000 for equal days, 300 for a price within the budget or 100 for one
\* within 1.2 times the budget, 50 for each distinct shared tag), no
\* eligible package of the catalog scores higher, and a single exact-day
\* package priced within the budget is accepted with 1300 + 50k.
C6_ScoreIsReference ==
    /\ Returned /\ result.kind = "accepted" =>
           /\ result.score = RefScore(Best)
           /\ result.package.id = Best.id
           /\ \A i \in 1..Len(Before) :
                  Eligible(Before[i]) => RefScore(Before[i]) <= result.score
    /\ ( /\ Returned
         /\ Len(Before) = 1
         /\ Before[1].id \notin locals.excluded
         /\ Before[1].days = locals.target_days
         /\ Before[1].price * 100 <= locals.target_budget )
       => /\ result.kind = "accepted"
          /\ result.score = 1300 + 50 * Cardinality(SharedTags(Before[1]))

C6_Witness ==
    /\ Returned
    /\ result.kind = "accepted"
    /\ Len(Before) = 2
    /\ Best.price * 100 > locals.target_budget
    /\ result.score = 1200
    /\ \E i \in 1..Len(Before) : Eligible(Before[i]) /\ RefScore(Before[i]) < 1200

\* C7: the matcher accepts a package only if the exact-day bonus is present
\* and the budget tier or the interest overlap scored as well.
C7_NeedsSecondCriterion ==
    Returned /\ result.kind = "accepted" => result.score > 1000

\* C8: a package whose id is among the excluded ids of the goals is never
\* the package of an accepted result.
C8_ExcludedNeverAccepted ==
    Returned /\ result.kind = "accepted" => result.package.id \notin AskedExcluded

\* C9: among the eligible packages that share the maximum score the matcher
\* holds the first in catalog order.
C9_FirstOfTheBest ==
    Returned /\ locals.best_match # 0 =>
        /\ Eligible(Best)
        /\ locals.best_score = RefScore(Best)
        /\ \A i \in 1..Len(Before) :
               Eligible(Before[i]) =>
                   /\ RefScore(Before[i]) <= locals.best_score
                   /\ RefScore(Before[i]) = locals.best_score
                          => locals.best_match <= i

C9_Witness ==
    /\ Returned
    /\ Len(Before) = 2
    /\ locals.best_match = 1
    /\ Eligible(Before[2])
    /\ RefScore(Before[2]) = locals.best_score
    /\ Before[2].price # Before[1].price

(***************************************************************************)
(* Properties of generate_fallback_tour, checked under SpecSynth.          *)
(***************************************************************************)
SynthReturned == calls > 0 /\ synth_out.id = "generated_999"

ActivitiesOn(pkg, d) ==
    { i \in 1..Len(pkg.activities) : pkg.activities[i].day = d }

\* C10: for every target_days >= 1, values above 20 included, the package
\* has activities on exactly the days 1..target_days, three on each day,
\* 3 * target_days in all.
C10_ThreePerDay ==
    SynthReturned =>
        /\ { synth_out.activities[i].day : i \in 1..Len(synth_out.activities) }
               = 1..synth_args.target_days
        /\ \A d \in 1..synth_args.target_days :
               Cardinality(ActivitiesOn(synth_out, d)) = 3
        /\ Len(synth_out.activities) = 3 * synth_args.target_days

C10_Witness ==
    /\ SynthReturned
    /\ synth_args.target_days > 2 * Len(BACKUP_CITIES)
    /\ Len(synth_out.activities) > 6 * Len(BACKUP_CITIES)

\* the sum of the costs of the activities from index i on
RECURSIVE SumCosts(_, _)
SumCosts(activities, i) ==
    IF i > Len(activities) THEN 0
    ELSE activities[i].cost + SumCosts(activities, i + 1)

\* C13: if the sum of the activity costs is below target_budget the price
\* of the generated package equals target_budget exactly, for every
\* non-negative budget, non-integer ones included; otherwise the price is
\* the sum of the activity costs.
C13_PriceIsBudgetOrSum ==
    SynthReturned =>
        IF SumCosts(synth_out.activities, 1) * 100 < synth_args.target_budget
        THEN synth_out.price * 100 = synth_args.target_budget
        ELSE synth_out.price = SumCosts(synth_out.activities, 1)

\* the allocation the call computed
Allocation == CityDayAllocation(synth_args.target_days)

\* C17: in the primary allocation every selected city has an entry, with
\* at least 1 and at most MAX_DAYS_PER_CITY = 2 days, for every
\* target_days >= 1.
C17_OneOrTwoDaysPerCity ==
    SynthReturned =>
        /\ Len(Allocation) = Len(SelectedCities(synth_args.target_days))
        /\ \A i \in 1..Len(Allocation) :
               /\ Allocation[i].city = SelectedCities(synth_args.target_days)[i]
               /\ Allocation[i].days >= 1
               /\ Allocation[i].days <= 2
        /\ synth_locals.route = [i \in 1..Len(Allocation) |-> Allocation[i].city]

C17_Witness ==
    /\ SynthReturned
    /\ synth_args.target_days > 2 * Len(BACKUP_CITIES)
    /\ Allocation[Len(Allocation)].days = 1
    /\ Allocation[1].days = 2

\* C18: in the generated package the activities of one city on one day
\* have pairwise distinct names, and the retry loop never gives up and
\* accepts an activity already used.
C18_NoDuplicateNames ==
    SynthReturned =>
        /\ \A i, j \in 1..Len(synth_out.activities) :
               /\ i # j
               /\ synth_out.activities[i].day = synth_out.activities[j].day
               /\ synth_out.activities[i].city = synth_out.activities[j].city
               => synth_out.activities[i].name # synth_out.activities[j].name
        /\ synth_locals.duplicates = 0

C18_Witness ==
    /\ SynthReturned
    /\ synth_locals.duplicates = 0
    /\ Len(synth_locals.route) > Len(BACKUP_CITIES)
    /\ synth_args.target_days = 2 * Len(synth_locals.route)
    /\ Cardinality(synth_locals.used_activities) = 3 * synth_args.target_days

NoRepeats(s) == \A i, j \in 1..Len(s) : s[i] = s[j] => i = j

\* the activities of the generated package on day d, in list order
OnDay(d) == SelectSeq(synth_out.activities, LAMBDA a : a.day = d)

\* C24: in the generated package every day holds exactly one Morning, one
\* Afternoon and one Evening activity, emitted in that order, all in one
\* city.
C24_MorningAfternoonEvening ==
    SynthReturned =>
        \A d \in 1..synth_args.target_days :
            /\ [i \in 1..Len(OnDay(d)) |-> OnDay(d)[i].time]
                   = << "Morning", "Afternoon", "Evening" >>
            /\ \A i \in 1..Len(OnDay(d)) : OnDay(d)[i].city = OnDay(d)[1].city

C24_Witness ==
    /\ SynthReturned
    /\ synth_args.target_days > 2 * Len(BACKUP_CITIES)
    /\ OnDay(2)[1].city = OnDay(1)[1].city
    /\ OnDay(2)[1].time = "Morning"
    /\ OnDay(2)[1].name # OnDay(1)[1].name
    /\ OnDay(3)[1].city # OnDay(1)[1].city

\* the days of the generated package spent in the city c
SynthDaysIn(c) ==
    { synth_out.activities[i].day :
        i \in { j \in 1..Len(synth_out.activities) :
                  synth_out.activities[j].city = c } }

\* C25: over the whole generated itinerary no city is repeated: for every
\* target_days >= 1 each city has at most 2 days in all, and no (city,
\* activity name) pair appears on two different days.
C25_NoCityRepeated ==
    SynthReturned =>
        /\ NoRepeats(synth_locals.route)
        /\ \A c \in Range(synth_locals.route) :
               Cardinality(SynthDaysIn(c)) <= MAX_DAYS_PER_CITY
        /\ \A i, j \in 1..Len(synth_out.activities) :
               /\ synth_out.activities[i].city = synth_out.activities[j].city
               /\ synth_out.activities[i].name = synth_out.activities[j].name
               => synth_out.activities[i].day = synth_out.activities[j].day

\* the days of the allocation entries from index i on
RECURSIVE SumDays(_, _)
SumDays(alloc, i) ==
    IF i > Len(alloc) THEN 0 ELSE alloc[i].days + SumDays(alloc, i + 1)

\* C27: for every target_days >= 1 the day counts of the primary
\* allocation sum to target_days, the day counter has passed target_days
\* when the primary phase ends, and the extension phase enters no city and
\* emits no activity.
C27_AllocationCoversAllDays ==
    SynthReturned =>
        /\ SumDays(Allocation, 1) = synth_args.target_days
        /\ CityLoop(SynthStart, Allocation, 1, synth_args.target_days).current_day
               = synth_args.target_days + 1
        /\ synth_locals.extended = 0
        /\ synth_locals.activities
               = CityLoop(SynthStart, Allocation, 1,
                          synth_args.target_days).activities

C27_Witness ==
    /\ SynthReturned
    /\ synth_args.target_days % 2 = 1
    /\ synth_args.target_days > 2 * Len(BACKUP_CITIES)
    /\ synth_locals.extended = 0
    /\ synth_locals.current_day > synth_args.target_days

\* C28: the activities, destinations, days and price of the generated
\* package depend on target_days and target_budget only: a call that
\* differs in the interests alone returns a package that differs in the
\* copied interests field alone.
C28_InterestsOnlyCopied ==
    SynthReturned =>
        /\ synth_out.interests = synth_args.interests
        /\ \A other \in SynthInterests :
               generate_fallback_tour(synth_args.target_days,
                                      synth_args.target_budget, other)
                   = [synth_out EXCEPT !.interests = other]

C28_Witness ==
    /\ SynthReturned
    /\ synth_args.interests = PyList(<< "beach" >>)
    /\ synth_out.interests = PyList(<< "beach" >>)
    /\ synth_out.activities # << >>
    /\ synth_out.price * 100 = synth_args.target_budget

\* ceil(target_days / 2)
HalfUp(target_days) == (target_days \div 2) + (target_days % 2)

\* the index of the first activity in the city c
FirstAt(activities, c) ==
    CHOOSE i \in 1..Len(activities) :
        /\ activities[i].city = c
        /\ \A j \in 1..(i - 1) : activities[j].city # c

InFirstAppearanceOrder(destinations, activities) ==
    /\ Range(destinations) = { activities[i].city : i \in 1..Len(activities) }
    /\ \A i, j \in 1..Len(destinations) :
           i < j => FirstAt(activities, destinations[i])
                        < FirstAt(activities, destinations[j])

DaysUsed(activities) == { activities[i].day : i \in 1..Len(activities) }

\* C11: for every result, accepted or generated, the days used by the
\* activities of the returned package are exactly 1..days, and the
\* package has at least one activity.
C11_DaysAreOneToTotal ==
    Returned =>
        /\ DaysUsed(result.package.activities) = 1..result.package.days
        /\ result.package.activities # << >>

\* a goal field that is present and valid: a number for days and budget,
\* a list for interests and excluded_ids
ValidField(key, tag) == Has(goals, key) /\ goals[key].t = tag

\* C14: with missing or invalid goal fields find_best_plan does not raise;
\* each missing or invalid field takes its default (days 7, budget 1500,
\* interests empty, excluded empty) and each field that is present and
\* valid keeps the value the caller gave.
C14_DefaultsFieldByField ==
    calls > 0 =>
        /\ result.kind # "raised"
        /\ locals.target_days =
               IF ValidField("days", "num") THEN goals.days.v ELSE 7
        /\ locals.target_budget =
               IF ValidField("budget", "num") THEN goals.budget.v ELSE 150000
        /\ locals.interests =
               IF ValidField("interests", "list") THEN goals.interests
               ELSE PyList(<< >>)
        /\ locals.excluded =
               IF ValidField("excluded_ids", "list")
               THEN Range(goals.excluded_ids.v) ELSE {}

(***************************************************************************)
(* Properties of optimize_activity_order, checked under SpecOpt.           *)
(***************************************************************************)
OptReturned == calls > 0 /\ opt_args.target_days >= 1

\* C12: for every activity list and every target_days >= 1 the returned
\* activities use exactly the days 1..target_days, and none has a day
\* above target_days.
C12_ExactlyTargetDays ==
    OptReturned =>
        /\ DaysUsed(opt_out) = 1..opt_args.target_days
        /\ Cardinality(DaysUsed(opt_out)) = opt_args.target_days
        /\ \A i \in 1..Len(opt_out) : opt_out[i].day <= opt_args.target_days

\* the list is grouped by location and contiguous by day: it uses the days
\* 1..target_days in order, each location holds one run of the list, and
\* a day has at most one activity in each time slot
AlreadyOrdered(activities, target_days) ==
    /\ \A i, j \in 1..Len(activities) :
           /\ activities[i].day = activities[j].day
           /\ activities[i].time = activities[j].time
           => i = j
    /\ DaysUsed(activities) = 1..target_days
    /\ \A i, j \in 1..Len(activities) :
           i < j => activities[i].day <= activities[j].day
    /\ \A i, j, k \in 1..Len(activities) :
           i < j /\ j < k /\ activities[i].city = activities[k].city
               => activities[j].city = activities[i].city
    /\ \A i, j \in 1..Len(activities) :
           activities[i].day = activities[j].day
               => activities[i].city = activities[j].city

\* C15: optimize_activity_order applied to activities that are already
\* grouped by location and contiguous by day returns every activity with
\* the day it already had.
C15_OrderedInputKeepsDays ==
    OptReturned /\ AlreadyOrdered(opt_args.activities, opt_args.target_days) =>
        /\ \A i \in 1..Len(opt_args.activities) :
               \E j \in 1..Len(opt_out) :
                   /\ opt_out[j].name = opt_args.activities[i].name
                   /\ opt_out[j].day = opt_args.activities[i].day
        /\ \A j \in 1..Len(opt_out) :
               \E i \in 1..Len(opt_args.activities) :
                   /\ opt_args.activities[i].name = opt_out[j].name
                   /\ opt_args.activities[i].day = opt_out[j].day

\* no two activities of the list on the same day at the same time of day
OnePerSlot(acts) ==
    \A i, j \in 1..Len(acts) :
        acts[i].day = acts[j].day /\ acts[i].time = acts[j].time => i = j

\* C21: in the output of optimize_activity_order every day holds at most
\* one Morning, one Afternoon and one Evening activity, hence at most 3
\* activities, the padded days included.
C21_OnePerSlotPerDay ==
    OptReturned /\ OnePerSlot(opt_args.activities) =>
        /\ \A i, j \in 1..Len(opt_out) :
               /\ opt_out[i].day = opt_out[j].day
               /\ opt_out[i].time = opt_out[j].time
               => i = j
        /\ \A d \in DaysUsed(opt_out) :
               Cardinality({ i \in 1..Len(opt_out) : opt_out[i].day = d }) <= 3

\* the days of the output spent in the city c
DaysIn(c) == { opt_out[i].day : i \in { j \in 1..Len(opt_out) : opt_out[j].city = c } }

\* C22: in the output of optimize_activity_order the activities of one day
\* share one city, each city holds one run of consecutive days, and the
\* runs come in the order the cities first appear in the input.
C22_OneRunPerCity ==
    OptReturned =>
        /\ \A i, j \in 1..Len(opt_out) :
               opt_out[i].day = opt_out[j].day
                   => opt_out[i].city = opt_out[j].city
        /\ \A i, k \in 1..Len(opt_out) :
               opt_out[i].city = opt_out[k].city =>
                   \A d \in opt_out[i].day..opt_out[k].day : d \in DaysIn(opt_out[i].city)
        /\ \A i, k \in 1..Len(opt_out) :
               opt_out[i].day < opt_out[k].day /\ opt_out[i].city # opt_out[k].city
                   => FirstAt(opt_args.activities, opt_out[i].city)
                          < FirstAt(opt_args.activities, opt_out[k].city)

C22_Witness ==
    /\ OptReturned
    /\ Len(opt_args.activities) = 3
    /\ opt_args.activities[1].city = opt_args.activities[3].city
    /\ opt_args.activities[1].city # opt_args.activities[2].city
    /\ opt_args.activities[1].time = opt_args.activities[3].time
    /\ Cardinality(DaysUsed(opt_out)) = 3
    /\ opt_out[3].city = opt_args.activities[2].city

\* the activity a has the fields of the activity b with the same values,
\* but for its day and for which object it is
SameButDay(a, b) ==
    /\ DOMAIN a \ { "obj", "day" } = DOMAIN b \ { "obj", "day" }
    /\ \A f \in DOMAIN b \ { "obj", "day" } : a[f] = b[f]

\* C23: optimize_activity_order is a pure transform: a call leaves the
\* list it is given and every activity of it, the day included, as they
\* were, and each activity returned equals an activity of that list in
\* every field but day.
C23_PureTransform ==
    [][calls' = calls + 1 =>
          /\ opt_args' = opt_args
          /\ \A j \in 1..Len(opt_out') :
                 /\ "obj" \notin DOMAIN opt_out'[j]
                 /\ \E i \in 1..Len(opt_args.activities) :
                        SameButDay(opt_out'[j], opt_args.activities[i])]_vars

C23_Witness ==
    /\ OptReturned
    /\ \E i \in 1..Len(opt_args.activities), j \in 1..Len(opt_out) :
           /\ opt_out[j].name = opt_args.activities[i].name
           /\ opt_out[j].day # opt_args.activities[i].day
           /\ opt_args.activities[i].day = 2

(***************************************************************************)
(* Properties of parallel calls, checked under SpecPar.                    *)
(***************************************************************************)
\* C16: calls of find_best_plan that run in parallel on the shared catalog
\* do not interfere: each call returns what it returns when it runs alone,
\* and no call reads activities that another call has replaced.
C16_ParallelCallsAgree ==
    \A p \in DOMAIN pc :
        /\ ~held[p].stale
        /\ pc[p] = "done" => held[p].ret = held[p].alone

(***************************************************************************)
(* Termination, checked under SpecSteps.                                   *)
(***************************************************************************)
\* C20: every call terminates: the matcher loop, the loops over cities,
\* days and time slots, the retry loop and the padding loop each end, and
\* the call reaches its return.
C20_Terminates == <>(run.pc = "done")

C20_Witness ==
    /\ run.pc = "done"
    /\ run.ret.kind = "accepted"
    /\ run.i > 2
    /\ Len(run.city_order) = 1
    /\ run.opt.current_day = run.g.target_days + 1
    /\ Len(run.opt.optimized) > Len(run.activities)

(***************************************************************************)
(* Properties of plan_tour's alternatives, checked under SpecAlt.          *)
(***************************************************************************)
AlternativeIds == [i \in 1..Len(alternatives.entries) |-> alternatives.entries[i].id]

\* C29: for every chosen package, of the catalog or generated, and every
\* goals, each entry _find_alternatives returns has an id other than the
\* chosen package's, and the entries have pairwise different ids.
C29_AlternativesDiffer ==
    alternatives.kind = "returned" =>
        /\ \A i \in 1..Len(AlternativeIds) : AlternativeIds[i] # result.package.id
        /\ NoRepeats(AlternativeIds)

(***************************************************************************)
(* Properties of the package cache, checked under SpecCache.               *)
(***************************************************************************)
\* the agents constructed before agent k that read the collection
LoadsBefore(k) == { j \in 1..(k - 1) : agents[j].queried }

\* the time of the last load before agent k was constructed
LastLoad(k) ==
    agents[CHOOSE j \in LoadsBefore(k) : \A i \in LoadsBefore(k) : i <= j].at

\* C30: the first agent constructed loads the cache from the collection;
\* an agent constructed within 300 seconds of the last load reads the cache
\* and not the collection; the first agent constructed more than 300
\* seconds after the last load loads the cache again; and an agent's
\* packages are the cache content when its construction ends.
C30_CacheFor300Seconds ==
    /\ \A k \in 1..Len(agents) :
           IF LoadsBefore(k) = {}
           THEN agents[k].queried
           ELSE agents[k].queried <=> agents[k].at - LastLoad(k) > 300
    /\ agents # << >> =>
           /\ packages_cache = PyList(agents[Len(agents)].packages)
           /\ packages = agents[Len(agents)].packages

C30_Witness ==
    /\ Len(agents) = 3
    /\ agents[1].queried
    /\ agents[2].at - agents[1].at = 300
    /\ ~agents[2].queried
    /\ agents[2].packages = agents[1].packages
    /\ agents[3].at - agents[1].at > 300
    /\ agents[3].queried
    /\ agents[3].packages # agents[2].packages
    /\ store = agents[3].packages

====
